---- MODULE Spec2Model ----
(***************************************************************************)
(* Model of cluster-status-updater-sheet (src/main.go): the pipeline       *)
(* main -> getAccessToken -> pollForStatus -> flatten -> header and rows   *)
(* -> Sheets clear -> Sheets update.                                        *)
(*                                                                         *)
(* Go strings are modelled as sequences of byte codes, so that             *)
(* concatenation, sort.Strings and splitting on "_" are computed and not   *)
(* assumed.  A Go map is a TLA+ function; the order in which `range`       *)
(* visits a map is not specified by Go, so every loop over a map is        *)
(* modelled over every order of its keys.                                  *)
(***************************************************************************)
EXTENDS Integers, Sequences, FiniteSets, TLC

VARIABLES
    pc,                 \* position of main: the stage about to run
    envOK,              \* the four environment variables are all non-empty
    urlOK,              \* http.NewRequest accepts URLs built from API_ROUTE
    logins,             \* login GETs sent
    posts,              \* trigger POSTs sent
    postOutcome,        \* what the trigger POST came back with
    gets,               \* polling GETs sent
    i,                  \* loop counter of pollForStatus
    lastStatus,         \* status decoded from the latest polling GET
    pollResult,         \* how pollForStatus returned
    clusters,           \* clusterData.Body.Clusters
    flattenedClusters,  \* main's flattenedClusters
    header,             \* main's header
    rows,               \* main's rows (the Table)
    clears,             \* Sheets Values.Clear calls sent
    updates,            \* Sheets Values.Update calls sent
    fatalAt,            \* the stage whose log.Fatal ended the process
    jsonMap,            \* argument of a flatten call
    prefix,             \* argument of a flatten call
    flattened,          \* the map that flatten call builds
    returned,           \* that flatten call has returned
    tableA,             \* Table of a first run of the flatten-and-assemble stage
    tableB              \* Table of a second run on the same payload

vars == <<pc, envOK, urlOK, logins, posts, postOutcome, gets, i, lastStatus,
          pollResult, clusters, flattenedClusters, header, rows, clears,
          updates, fatalAt, jsonMap, prefix, flattened, returned, tableA,
          tableB>>

pipelineVars == <<pc, envOK, urlOK, logins, posts, postOutcome, gets, i,
                  lastStatus, pollResult, clusters, flattenedClusters, header,
                  rows, clears, updates, fatalAt>>

flattenVars == <<jsonMap, prefix, flattened, returned>>

twoRunVars == <<tableA, tableB>>

(***************************************************************************)
(* Bounds of the checked inputs.                                           *)
(***************************************************************************)
MaxNodes == 4           \* JSON nodes of the object handed to flatten
MaxPayloadNodes == 3    \* JSON nodes below the clusters mapping

(***************************************************************************)
(* Strings.                                                                *)
(***************************************************************************)
EmptyString == <<>>
Separator == <<95>>                                 \* "_"
ClusterNameKey == <<99, 108, 117, 115, 116, 101, 114, 95, 110, 97, 109, 101>>
                                                    \* "cluster_name"
KeyA == <<97>>                                      \* "a"
KeyB == <<98>>                                      \* "b"
KeyAB == <<97, 95, 98>>                             \* "a_b"
KeyD == <<100>>                                     \* "d"
StrX == <<120>>                                     \* "x"
ClusterC1 == <<99, 49>>                             \* "c1"
ClusterC2 == <<99, 50>>                             \* "c2"

\* The keys objects are built from; the empty key and a key holding the
\* separator are legal JSON keys.
KeyList == <<EmptyString, KeyA, KeyAB, KeyB>>
ClusterList == <<ClusterC1, ClusterC2>>
\* The keys inside a cluster's record: "d" sorts after "cluster_name".
PayloadKeyList == <<KeyA, KeyB, KeyD>>

(***************************************************************************)
(* JSON values as encoding/json decodes them into interface{}.             *)
(***************************************************************************)
JString(s) == [t |-> "string", s |-> s]
JNumber(n) == [t |-> "float64", n |-> n]
JBool(b) == [t |-> "bool", b |-> b]
JNull == [t |-> "nil"]
JObject(m) == [t |-> "map", m |-> m]
JArray(a) == [t |-> "slice", a |-> a]

Scalars == {JString(StrX), JNumber(12), JBool(TRUE), JNull}
PayloadScalars == {JString(StrX), JNumber(12)}

EmptyMap == <<>>

\* m with the entries of g assigned over it: `for k, v := range g { m[k] = v }`
Override(m, g) ==
    [k \in (DOMAIN m) \cup (DOMAIN g) |-> IF k \in DOMAIN g THEN g[k] ELSE m[k]]

Single(k, v) == [x \in {k} |-> v]

\* A \cup B; taking A's cardinality first has TLC sort A, so that the union
\* of two large sets costs no quadratic search
Join(A, B) == IF Cardinality(A) = 0 THEN B ELSE A \cup B

RECURSIVE FieldsFrom(_, _, _, _), FieldsWith(_, _, _, _, _)
\* every mapping over top[k..] whose values have n nodes together, sized[sz]
\* being the values of sz nodes
FieldsFrom(top, k, n, sized) ==
    IF n = 0 THEN {EmptyMap}
    ELSE IF k > Len(top) THEN {}
    ELSE Join(FieldsFrom(top, k + 1, n, sized), FieldsWith(top, k, n, sized, 1))
\* those of them that have the key top[k], with a value of sz nodes or more
FieldsWith(top, k, n, sized, sz) ==
    IF sz > n THEN {}
    ELSE Join({Override(rest, Single(top[k], v)) :
                   v \in sized[sz], rest \in FieldsFrom(top, k + 1, n - sz, sized)},
              FieldsWith(top, k, n, sized, sz + 1))

RECURSIVE ElemsOfSize(_, _), ElemsWith(_, _, _)
\* every array whose elements have n nodes together
ElemsOfSize(n, sized) == IF n = 0 THEN {<<>>} ELSE ElemsWith(n, sized, 1)
\* those of them whose first element has sz nodes or more
ElemsWith(n, sized, sz) ==
    IF sz > n THEN {}
    ELSE Join({<<v>> \o rest : v \in sized[sz], rest \in ElemsOfSize(n - sz, sized)},
              ElemsWith(n, sized, sz + 1))

RECURSIVE ValuesBySize(_, _, _)
\* <<V1, ..., Vn>>: Vj holds every JSON value of exactly j nodes over the
\* given keys and scalars
ValuesBySize(keys, scalars, n) ==
    IF n = 0 THEN <<>>
    ELSE LET sized == ValuesBySize(keys, scalars, n - 1)
         IN  Append(sized,
                    Join(IF n = 1 THEN scalars ELSE {},
                         Join({JObject(m) : m \in FieldsFrom(keys, 1, n - 1, sized)},
                              {JArray(a) : a \in ElemsOfSize(n - 1, sized)})))

RECURSIVE MapsUpTo(_, _, _)
\* every mapping over the keys top whose values have at most n nodes together
MapsUpTo(top, n, sized) ==
    IF n < 0 THEN {}
    ELSE Join(FieldsFrom(top, 1, n, sized), MapsUpTo(top, n - 1, sized))

\* the objects flatten is checked on: at most MaxNodes nodes
Docs ==
    {JObject(m) : m \in MapsUpTo(KeyList, MaxNodes - 1,
                                 ValuesBySize(KeyList, Scalars, MaxNodes - 1))}

\* the cluster mappings a "success" answer may carry: at most MaxPayloadNodes
\* nodes below the mapping
ClusterMaps ==
    MapsUpTo(ClusterList, MaxPayloadNodes,
             ValuesBySize(PayloadKeyList, PayloadScalars, MaxPayloadNodes))

\* every order in which `range` may visit the keys S of a map
Orders(S) ==
    {o \in [1..Cardinality(S) -> S] : \A x, y \in 1..Cardinality(S) : o[x] = o[y] => x = y}

(***************************************************************************)
(* fmt.Sprintf of the scalars.                                             *)
(***************************************************************************)
RECURSIVE Digits(_)
Digits(n) == IF n < 10 THEN <<48 + n>> ELSE Digits(n \div 10) \o <<48 + (n % 10)>>

\* fmt.Sprintf("%v", float64): decimal digits for the integral values modelled
FormatFloat(n) == IF n < 0 THEN <<45>> \o Digits(0 - n) ELSE Digits(n)
\* fmt.Sprintf("%t", bool)
FormatBool(b) == IF b THEN <<116, 114, 117, 101>> ELSE <<102, 97, 108, 115, 101>>
\* fmt.Sprintf("%v", nil)
FormatNil == <<60, 110, 105, 108, 62>>

ScalarString(v) ==
    CASE v.t = "string" -> v.s
      [] v.t = "float64" -> FormatFloat(v.n)
      [] v.t = "bool" -> FormatBool(v.b)
      [] OTHER -> FormatNil

(***************************************************************************)
(* flatten                                                                 *)
(***************************************************************************)
NewPrefixNoSeparator(pre, key) == IF pre # EmptyString THEN pre \o key ELSE key

NewPrefix(pre, key) == IF pre # EmptyString THEN pre \o Separator \o key ELSE key

RECURSIVE Flatten(_, _), FlattenKey(_, _, _), FlattenInOrder(_, _, _, _)
\* what the loop body adds for one key: the maps it may assign into flattened
FlattenKey(m, pre, key) ==
    LET newPrefix == NewPrefix(pre, key)
        value == m[key]
    IN  CASE value.t = "map" -> Flatten(value, newPrefix)
          [] value.t = "slice" ->
                IF Len(value.a) > 0 THEN Flatten(value.a[1], newPrefix)
                ELSE {EmptyMap}
          [] value.t = "string" -> {Single(newPrefix, value.s)}
          [] value.t = "float64" -> {Single(newPrefix, FormatFloat(value.n))}
          [] value.t = "bool" -> {Single(newPrefix, FormatBool(value.b))}
          [] OTHER -> {Single(newPrefix, FormatNil)}
\* the loop over m in the order `order`, starting from acc
FlattenInOrder(m, pre, order, acc) ==
    IF order = <<>> THEN {acc}
    ELSE UNION {FlattenInOrder(m, pre, Tail(order), Override(acc, c)) :
                c \in FlattenKey(m, pre, Head(order))}
\* the maps flatten(v, pre) may return, one for each order of iteration
Flatten(v, pre) ==
    IF v.t = "map"
    THEN UNION {FlattenInOrder(v.m, pre, order, EmptyMap) : order \in Orders(DOMAIN v.m)}
    ELSE {EmptyMap}

(***************************************************************************)
(* A call flatten(jsonMap, prefix) on its own.                             *)
(***************************************************************************)
Prefixes == {EmptyString, <<112>>}                  \* "" and "p"

PipelineIdle ==
    /\ pc = "idle" /\ envOK = TRUE /\ urlOK = TRUE
    /\ logins = 0 /\ posts = 0 /\ gets = 0 /\ i = 0
    /\ postOutcome = [kind |-> "none"] /\ lastStatus = "none" /\ pollResult = "none"
    /\ flattenedClusters = <<>> /\ header = <<>> /\ rows = <<>>
    /\ clears = 0 /\ updates = 0 /\ fatalAt = "none"

InitFlatten ==
    /\ PipelineIdle
    /\ clusters = EmptyMap
    /\ jsonMap \in Docs
    /\ prefix \in Prefixes
    /\ flattened = EmptyMap
    /\ returned = FALSE
    /\ tableA = <<>> /\ tableB = <<>>

CallFlatten ==
    /\ ~returned
    /\ flattened' \in Flatten(jsonMap, prefix)
    /\ returned' = TRUE
    /\ UNCHANGED <<pipelineVars, twoRunVars, jsonMap, prefix>>

NextFlatten == CallFlatten

SpecFlatten == InitFlatten /\ [][NextFlatten]_vars

(***************************************************************************)
(* Reading a flat record back: what the claims about flatten compare with. *)
(***************************************************************************)
RECURSIVE HasArray(_)
HasArray(v) ==
    CASE v.t = "slice" -> TRUE
      [] v.t = "map" -> \E k \in DOMAIN v.m : HasArray(v.m[k])
      [] OTHER -> FALSE

RECURSIVE GoodKeys(_)
\* every key of every object is non-empty and holds no separator byte
GoodKeys(v) ==
    CASE v.t = "map" ->
            \A k \in DOMAIN v.m :
                /\ k # EmptyString
                /\ \A x \in 1..Len(k) : <<k[x]>> # Separator
                /\ GoodKeys(v.m[k])
      [] v.t = "slice" -> \A x \in 1..Len(v.a) : GoodKeys(v.a[x])
      [] OTHER -> TRUE

RECURSIVE Leaves(_, _)
\* the scalar leaves of an array-free value, each with its path of keys
Leaves(v, path) ==
    CASE v.t = "map" -> UNION {Leaves(v.m[k], Append(path, k)) : k \in DOMAIN v.m}
      [] v.t = "slice" -> {}
      [] OTHER -> {<<path, v>>}

RECURSIVE SplitFrom(_, _)
\* strings.Split(s, "_"), cur being the segment read so far
SplitFrom(s, cur) ==
    IF s = <<>> THEN <<cur>>
    ELSE IF <<Head(s)>> = Separator THEN <<cur>> \o SplitFrom(Tail(s), <<>>)
    ELSE SplitFrom(Tail(s), Append(cur, Head(s)))

Split(s) == SplitFrom(s, <<>>)

\* the leaves of the record re-nested by splitting its keys on the separator
Renest(flat) == {<<Split(k), flat[k]>> : k \in DOMAIN flat}

LeavesKept(v, flat) ==
    \A leaf \in Leaves(v, <<>>) : <<leaf[1], ScalarString(leaf[2])>> \in Renest(flat)

\* C6 as stated: for every array-free object, flatten(obj, "") re-nested by
\* splitting keys on "_" holds every original leaf at its original path with
\* its value.
C6_RoundTripAllObjects ==
    (returned /\ prefix = EmptyString /\ ~HasArray(jsonMap))
        => LeavesKept(jsonMap, flattened)

\* C6 amended: for every array-free object whose keys are all non-empty and
\* hold no "_", flatten(obj, "") re-nested by splitting keys on "_" holds every
\* original leaf at its original path with the string form of its value.
C6_RoundTripGoodKeys ==
    (returned /\ prefix = EmptyString /\ ~HasArray(jsonMap) /\ GoodKeys(jsonMap))
        => LeavesKept(jsonMap, flattened)

\* a nested array-free object with good keys has been flattened and read back
C6_Witness ==
    /\ returned /\ prefix = EmptyString /\ ~HasArray(jsonMap) /\ GoodKeys(jsonMap)
    /\ \E leaf \in Leaves(jsonMap, <<>>) : Len(leaf[1]) = 2 /\ leaf[2].t = "float64"
    /\ Cardinality(Leaves(jsonMap, <<>>)) = 2
    /\ LeavesKept(jsonMap, flattened)

RECURSIVE RuleFlatten(_, _), RuleInOrder(_, _, _, _)
\* The Flattener rules applied to any value at path p: an object merges its
\* keys' results, an array stands for its first element at the same path, a
\* scalar is stored under p in its string form.
RuleFlatten(v, p) ==
    CASE v.t = "map" ->
            UNION {RuleInOrder(v.m, p, order, EmptyMap) : order \in Orders(DOMAIN v.m)}
      [] v.t = "slice" -> IF Len(v.a) > 0 THEN RuleFlatten(v.a[1], p) ELSE {EmptyMap}
      [] OTHER -> {Single(p, ScalarString(v))}
RuleInOrder(m, pre, order, acc) ==
    IF order = <<>> THEN {acc}
    ELSE UNION {RuleInOrder(m, pre, Tail(order), Override(acc, c)) :
                c \in RuleFlatten(m[Head(order)], NewPrefix(pre, Head(order)))}

\* C7: an array at key path p contributes what the Flattener rules give for
\* its first element at p (sub-keys of an object, the string form of a scalar
\* under p), nothing more, and nothing when it is empty: the record flatten
\* returns is one the rules give.
C7_ArrayFirstElement ==
    returned => flattened \in RuleFlatten(jsonMap, prefix)

(***************************************************************************)
(* main, stage 4: header and rows.                                         *)
(***************************************************************************)
RECURSIVE Less(_, _)
\* a < b on Go strings: bytewise lexicographic
Less(a, b) ==
    IF a = <<>> THEN b # <<>>
    ELSE IF b = <<>> THEN FALSE
    ELSE IF a[1] # b[1] THEN a[1] < b[1]
    ELSE Less(Tail(a), Tail(b))

RECURSIVE InsertSorted(_, _)
InsertSorted(x, s) ==
    IF s = <<>> THEN <<x>>
    ELSE IF Less(Head(s), x) THEN <<Head(s)>> \o InsertSorted(x, Tail(s))
    ELSE <<x>> \o s

RECURSIVE InsertionSort(_)
InsertionSort(s) == IF s = <<>> THEN <<>> ELSE InsertSorted(Head(s), InsertionSort(Tail(s)))

NoSort(s) == s

\* sort.Strings(s)
SortStrings(s) == InsertionSort(s)

RECURSIVE CollectInOrder(_, _, _)
\* the loop over the clusters in the order `order`: flatten each, add its
\* name under "cluster_name", append to flattenedClusters
CollectInOrder(cl, order, acc) ==
    IF order = <<>> THEN {acc}
    ELSE UNION {CollectInOrder(cl, Tail(order),
                    Append(acc, Override(f, Single(ClusterNameKey, Head(order))))) :
                f \in Flatten(cl[Head(order)], EmptyString)}

\* the values flattenedClusters may end with
FlattenedClusters(cl) == UNION {CollectInOrder(cl, order, <<>>) : order \in Orders(DOMAIN cl)}

\* headerMap: every key of every flattened cluster
HeaderMap(fc) == UNION {DOMAIN fc[x] : x \in 1..Len(fc)}

\* header: the keys of headerMap appended in the order of iteration, then sorted
Headers(fc) == {SortStrings(order) : order \in Orders(HeaderMap(fc))}

BuildRowSkipMissing(rec, hdr) ==
    LET present == SelectSeq(hdr, LAMBDA key : key \in DOMAIN rec)
    IN  [x \in 1..Len(present) |-> rec[present[x]]]

\* one data row: the value under each header key, "" where the key is absent
BuildRow(rec, hdr) ==
    [x \in 1..Len(hdr) |-> IF hdr[x] \in DOMAIN rec THEN rec[hdr[x]] ELSE EmptyString]

\* rows: the header row, then one row for each flattened cluster
BuildRows(fc, hdr) == <<hdr>> \o [x \in 1..Len(fc) |-> BuildRow(fc[x], hdr)]

(***************************************************************************)
(* main and pollForStatus, one step for each exchange with the outside.    *)
(***************************************************************************)
ElevenAttempts == 10 + 1

MaxAttempts == 10

Statuses == {"success", "pending", "Success", ""}

PostStatuses == {"200 OK", "500 Internal Server Error"}
PostBodies == {"", "{\"status\":\"success\"}"}

IsAnything(status) == TRUE

IsSuccess(status) == status = "success"

FlattenIdle ==
    /\ jsonMap = JObject(EmptyMap) /\ prefix = EmptyString
    /\ flattened = EmptyMap /\ returned = FALSE

Init ==
    /\ pc = "env"
    /\ envOK \in BOOLEAN
    /\ urlOK \in BOOLEAN
    /\ logins = 0 /\ posts = 0 /\ gets = 0 /\ i = 0
    /\ postOutcome = [kind |-> "none"]
    /\ lastStatus = "none"
    /\ pollResult = "none"
    /\ clusters = EmptyMap
    /\ flattenedClusters = <<>> /\ header = <<>> /\ rows = <<>>
    /\ clears = 0 /\ updates = 0
    /\ fatalAt = "none"
    /\ FlattenIdle
    /\ tableA = <<>> /\ tableB = <<>>

\* log.Fatal in main at the given stage
Fatal(stage) == pc' = "fatal" /\ fatalAt' = stage

\* main, step 1: the four environment variables
CheckEnv ==
    /\ pc = "env"
    /\ IF envOK THEN pc' = "login" /\ UNCHANGED fatalAt ELSE Fatal("env")
    /\ UNCHANGED <<envOK, urlOK, logins, posts, postOutcome, gets, i, lastStatus,
                   pollResult, clusters, flattenedClusters, header, rows, clears,
                   updates, flattenVars, twoRunVars>>

\* main, step 2: getAccessToken
Login ==
    /\ pc = "login"
    /\ IF ~urlOK
       THEN Fatal("login") /\ UNCHANGED logins
       ELSE /\ logins' = logins + 1
            /\ \E outcome \in {"transport", "status", "decode", "ok"} :
                  IF outcome = "ok" THEN pc' = "trigger" /\ UNCHANGED fatalAt
                  ELSE Fatal("login")
    /\ UNCHANGED <<envOK, urlOK, posts, postOutcome, gets, i, lastStatus,
                   pollResult, clusters, flattenedClusters, header, rows, clears,
                   updates, flattenVars, twoRunVars>>

PollFailsLogged(how) == pollResult' = how /\ pc' = "flatten" /\ UNCHANGED fatalAt

\* pollForStatus returns err and main ends with log.Fatalf
PollFails(how) == pollResult' = how /\ Fatal("poll")

TriggerChecksStatus ==
    /\ pc = "trigger"
    /\ posts' = posts + 1
    /\ \/ /\ postOutcome' = [kind |-> "error"]
          /\ PollFails("trigger")
       \/ \E st \in PostStatuses, body \in PostBodies :
             /\ postOutcome' = [kind |-> "response", status |-> st, body |-> body]
             /\ IF st = "200 OK" THEN pc' = "poll" /\ UNCHANGED <<pollResult, fatalAt>>
                ELSE PollFails("trigger")
    /\ UNCHANGED <<envOK, urlOK, logins, gets, i, lastStatus, clusters,
                   flattenedClusters, header, rows, clears, updates,
                   flattenVars, twoRunVars>>

\* pollForStatus: the trigger POST
Trigger ==
    /\ pc = "trigger"
    /\ IF ~urlOK
       THEN PollFails("newrequest") /\ UNCHANGED <<posts, postOutcome>>
       ELSE /\ posts' = posts + 1
            /\ \/ /\ postOutcome' = [kind |-> "error"]
                  /\ PollFails("trigger")
               \/ /\ \E st \in PostStatuses, body \in PostBodies :
                        postOutcome' = [kind |-> "response", status |-> st, body |-> body]
                  /\ pc' = "poll"
                  /\ UNCHANGED <<pollResult, fatalAt>>
    /\ UNCHANGED <<envOK, urlOK, logins, gets, i, lastStatus, clusters,
                   flattenedClusters, header, rows, clears, updates,
                   flattenVars, twoRunVars>>

\* one pass of the polling loop whose GET fails in transport
PollTransportError ==
    /\ pc = "poll" /\ i < MaxAttempts
    /\ IF ~urlOK
       THEN PollFails("newrequest") /\ UNCHANGED gets
       ELSE gets' = gets + 1 /\ PollFails("transport")
    /\ UNCHANGED <<envOK, urlOK, logins, posts, postOutcome, i, lastStatus, clusters,
                   flattenedClusters, header, rows, clears, updates,
                   flattenVars, twoRunVars>>

PollDecodeErrorRetried ==
    /\ pc = "poll" /\ i < MaxAttempts
    /\ gets' = gets + 1
    /\ i' = i + 1
    /\ IF i + 1 < MaxAttempts THEN UNCHANGED <<pc, pollResult, fatalAt>>
       ELSE PollFails("decode")
    /\ UNCHANGED <<envOK, urlOK, logins, posts, postOutcome, lastStatus, clusters,
                   flattenedClusters, header, rows, clears, updates,
                   flattenVars, twoRunVars>>

\* one pass of the polling loop whose answer does not decode
PollDecodeError ==
    /\ pc = "poll" /\ i < MaxAttempts
    /\ IF ~urlOK
       THEN PollFails("newrequest") /\ UNCHANGED gets
       ELSE gets' = gets + 1 /\ PollFails("decode")
    /\ UNCHANGED <<envOK, urlOK, logins, posts, postOutcome, i, lastStatus, clusters,
                   flattenedClusters, header, rows, clears, updates,
                   flattenVars, twoRunVars>>

\* one pass of the polling loop whose answer decodes: return it when its
\* status is "success", else go round again, and time out when the loop ends
PollDecoded ==
    /\ pc = "poll" /\ i < MaxAttempts
    /\ IF ~urlOK
       THEN /\ PollFails("newrequest")
            /\ UNCHANGED <<gets, i, lastStatus, clusters>>
       ELSE /\ gets' = gets + 1
            /\ \E status \in Statuses, body \in ClusterMaps :
                  /\ lastStatus' = status
                  /\ IF IsSuccess(status)
                     THEN /\ clusters' = body
                          /\ pollResult' = "ok"
                          /\ pc' = "flatten"
                          /\ UNCHANGED <<i, fatalAt>>
                     ELSE /\ i' = i + 1
                          /\ UNCHANGED clusters
                          /\ IF i + 1 < MaxAttempts
                             THEN UNCHANGED <<pc, pollResult, fatalAt>>
                             ELSE PollFails("timeout")
    /\ UNCHANGED <<envOK, urlOK, logins, posts, postOutcome,
                   flattenedClusters, header, rows, clears, updates,
                   flattenVars, twoRunVars>>

\* main, step 4: flatten every cluster, build header and rows
FlattenAndAssemble ==
    /\ pc = "flatten"
    /\ \E fc \in FlattenedClusters(clusters) :
          \E hdr \in Headers(fc) :
              /\ flattenedClusters' = fc
              /\ header' = hdr
              /\ rows' = BuildRows(fc, hdr)
    /\ pc' = "sheets"
    /\ UNCHANGED <<envOK, urlOK, logins, posts, postOutcome, gets, i, lastStatus,
                   pollResult, clusters, clears, updates, fatalAt,
                   flattenVars, twoRunVars>>

\* main, step 5: credentials file, JWT config, Sheets service
SheetsClient ==
    /\ pc = "sheets"
    /\ \E outcome \in {"readfile", "jwtconfig", "newservice", "ok"} :
          IF outcome = "ok" THEN pc' = "clear" /\ UNCHANGED fatalAt
          ELSE Fatal("sheets")
    /\ UNCHANGED <<envOK, urlOK, logins, posts, postOutcome, gets, i, lastStatus,
                   pollResult, clusters, flattenedClusters, header, rows, clears,
                   updates, flattenVars, twoRunVars>>

\* main: Values.Clear
ClearSheet ==
    /\ pc = "clear"
    /\ clears' = clears + 1
    /\ \E ok \in BOOLEAN :
          IF ok THEN pc' = "update" /\ UNCHANGED fatalAt ELSE Fatal("clear")
    /\ UNCHANGED <<envOK, urlOK, logins, posts, postOutcome, gets, i, lastStatus,
                   pollResult, clusters, flattenedClusters, header, rows,
                   updates, flattenVars, twoRunVars>>

\* main: Values.Update
UpdateSheet ==
    /\ pc = "update"
    /\ updates' = updates + 1
    /\ \E ok \in BOOLEAN :
          IF ok THEN pc' = "done" /\ UNCHANGED fatalAt ELSE Fatal("update")
    /\ UNCHANGED <<envOK, urlOK, logins, posts, postOutcome, gets, i, lastStatus,
                   pollResult, clusters, flattenedClusters, header, rows,
                   clears, flattenVars, twoRunVars>>

Next ==
    \/ CheckEnv
    \/ Login
    \/ Trigger
    \/ PollTransportError
    \/ PollDecodeError
    \/ PollDecoded
    \/ FlattenAndAssemble
    \/ SheetsClient
    \/ ClearSheet
    \/ UpdateSheet

Spec == Init /\ [][Next]_vars

(***************************************************************************)
(* Properties of the pipeline.                                             *)
(***************************************************************************)
PollReturned == pollResult # "none"

\* C1: a run of pollForStatus sends exactly one POST and at most 10 GETs, and
\* returns successfully exactly at the first GET whose decoded status is
\* "success": every GET before it decoded another status, none follows it.
C1_OnePostAtMostTenGets ==
    /\ posts <= 1
    /\ (pc = "poll" \/ PollReturned) => posts = 1
    /\ gets <= 10
    /\ (lastStatus = "success") <=> (pollResult = "ok")
    /\ pollResult = "ok" => gets = i + 1
    /\ pc \in {"flatten", "sheets", "clear", "update", "done"} => pollResult = "ok"

\* a run that returned on its third GET and went on to the end
C1_Witness ==
    /\ pc = "done" /\ pollResult = "ok" /\ lastStatus = "success"
    /\ posts = 1 /\ gets = 3 /\ i = 2

\* C2: ten GETs that all decode a status other than "success" end
\* pollForStatus with the timeout error after exactly 10 GETs, there is never an
\* 11th GET, and the timeout error arises in no other way.
C2_TimeoutAfterTenGets ==
    /\ gets <= 10
    /\ (i = 10) <=> (pollResult = "timeout")
    /\ pollResult = "timeout" =>
          /\ gets = 10
          /\ lastStatus \notin {"success", "none"}
          /\ pc = "fatal" /\ fatalAt = "poll"
    /\ (pc = "poll" /\ ~PollReturned) => gets = i /\ i < 10

\* the tenth GET decoded an unknown status and the call timed out
C2_Witness ==
    /\ pollResult = "timeout" /\ gets = 10 /\ i = 10
    /\ lastStatus = "Success" /\ pc = "fatal"

\* the row that each flattened cluster must give under header hdr
ExpectedCell(rec, key) == IF key \in DOMAIN rec THEN rec[key] ELSE EmptyString

Assembled == rows # <<>>

\* C4: every data row has len(header) cells in header order; the cell of a
\* cluster under a header key is that cluster's flattened value, or "" when its
\* FlatRecord lacks the key.
C4_RowsMatchHeader ==
    Assembled =>
        /\ rows[1] = header
        /\ Len(rows) = Len(flattenedClusters) + 1
        /\ Len(flattenedClusters) = Cardinality(DOMAIN clusters)
        /\ \A name \in DOMAIN clusters :
              \E r \in 1..Len(flattenedClusters) :
                  /\ ClusterNameKey \in DOMAIN flattenedClusters[r]
                  /\ flattenedClusters[r][ClusterNameKey] = name
                  /\ \E f \in Flatten(clusters[name], EmptyString) :
                        \A k \in (DOMAIN f) \ {ClusterNameKey} :
                            /\ k \in DOMAIN flattenedClusters[r]
                            /\ flattenedClusters[r][k] = f[k]
        /\ \A r \in 1..Len(flattenedClusters) :
              /\ Len(rows[r + 1]) = Len(header)
              /\ \A c \in 1..Len(header) :
                    rows[r + 1][c] = ExpectedCell(flattenedClusters[r], header[c])

\* two clusters, one of them without a key the other has: its cell is ""
C4_Witness ==
    /\ Assembled /\ Len(rows) = 3 /\ Len(header) >= 2
    /\ \E r \in 1..2, c \in 1..Len(header) :
          /\ header[c] \notin DOMAIN flattenedClusters[r]
          /\ header[c] \in DOMAIN flattenedClusters[3 - r]
          /\ rows[r + 1][c] = EmptyString
          /\ rows[4 - r][c] # EmptyString

\* a comes before b in ascending lexicographic order of bytes
LexBefore(a, b) ==
    \E k \in 1..(Len(a) + 1) :
        /\ k <= Len(b)
        /\ \A x \in 1..(k - 1) : a[x] = b[x]
        /\ (k = Len(a) + 1 \/ a[k] < b[k])

\* C5: header holds exactly the keys of all FlatRecords (cluster_name among
\* them), each once, in ascending lexicographic order.
C5_HeaderSortedUnion ==
    Assembled =>
        /\ {header[x] : x \in 1..Len(header)} =
              UNION {DOMAIN flattenedClusters[r] : r \in 1..Len(flattenedClusters)}
        /\ flattenedClusters # <<>> => \E x \in 1..Len(header) : header[x] = ClusterNameKey
        /\ \A x, y \in 1..Len(header) : x < y => LexBefore(header[x], header[y])

\* two clusters with different keys: the header is their union, with
\* cluster_name sorted before "d"
C5_Witness ==
    /\ Assembled /\ Len(flattenedClusters) = 2
    /\ header = <<ClusterNameKey, KeyD>>
    /\ \E r \in 1..2 : KeyD \notin DOMAIN flattenedClusters[r]

\* C8: the stages run in the order env, login, POST, GETs, flatten, clear,
\* update, each only after the one before it succeeded, and a failed stage ends
\* the process with no later stage performed.
C8_StagesInOrder ==
    /\ logins <= 1 /\ clears <= 1 /\ updates <= 1
    /\ logins > 0 => envOK
    /\ posts > 0 => logins = 1 /\ fatalAt # "login"
    /\ gets > 0 => posts = 1 /\ postOutcome.kind = "response"
    /\ Assembled => pollResult = "ok"
    /\ clears > 0 => Assembled /\ pollResult = "ok" /\ fatalAt \notin {"env", "login", "poll", "sheets"}
    /\ updates > 0 => clears = 1 /\ fatalAt \in {"none", "update"}
    /\ pc = "done" => updates = 1 /\ fatalAt = "none"
    /\ (pc = "fatal") <=> (fatalAt # "none")
    /\ fatalAt = "env" => logins = 0 /\ posts = 0 /\ gets = 0
    /\ fatalAt = "login" => posts = 0 /\ gets = 0
    /\ fatalAt = "poll" => pollResult \notin {"none", "ok"} /\ ~Assembled
    /\ fatalAt \in {"env", "login"} => ~PollReturned /\ ~Assembled
    /\ fatalAt \in {"env", "login", "poll", "sheets"} => clears = 0 /\ updates = 0
    /\ fatalAt = "clear" => updates = 0

\* a run that went through every stage
C8_Witness ==
    /\ pc = "done" /\ logins = 1 /\ posts = 1 /\ gets = 2
    /\ clears = 1 /\ updates = 1 /\ Len(rows) = 2

\* C9: a transport error of the trigger POST ends pollForStatus with no GET
\* sent; any answer to the POST, whatever its status line and body, leads into
\* the polling loop.
C9_TriggerFireAndForget ==
    /\ (postOutcome.kind = "error") <=> (pollResult = "trigger")
    /\ postOutcome.kind = "error" => gets = 0 /\ pc = "fatal" /\ fatalAt = "poll"
    /\ postOutcome.kind = "response" => (pc = "poll" /\ ~PollReturned) \/ gets >= 1
    /\ (fatalAt = "poll" /\ gets = 0) => postOutcome.kind = "error"

\* the POST was answered 500 with a body and the polling went on to succeed
C9_Witness ==
    /\ postOutcome.kind = "response"
    /\ postOutcome.status = "500 Internal Server Error"
    /\ postOutcome.body # ""
    /\ pollResult = "ok" /\ gets = 2

\* C10: a transport or decode error of a polling GET ends pollForStatus with
\* that error at once: the failed GET is the last one, whatever is left of the
\* 10 attempts, and the call ends neither in success nor in the timeout.
C10_GetErrorEndsPolling ==
    /\ pollResult \in {"transport", "decode"} =>
          /\ pc = "fatal" /\ fatalAt = "poll"
          /\ gets = i + 1
          /\ clusters = EmptyMap
    /\ (PollReturned /\ gets > i) => pollResult \in {"transport", "decode", "ok"}
    /\ (pc = "poll" /\ ~PollReturned) => gets = i

\* the second GET did not decode; eight attempts were left unused
C10_Witness ==
    /\ pollResult = "decode" /\ gets = 2 /\ i = 1
    /\ pc = "fatal" /\ lastStatus = "pending"


(***************************************************************************)
(* Stage 4 of main run twice on one payload.                               *)
(***************************************************************************)
\* the Tables lines 58-97 may build from one cluster mapping
Tables(cl) ==
    UNION {{BuildRows(fc, hdr) : hdr \in Headers(fc)} : fc \in FlattenedClusters(cl)}

InitTwoRuns ==
    /\ PipelineIdle
    /\ clusters \in ClusterMaps
    /\ FlattenIdle
    /\ tableA = <<>> /\ tableB = <<>>

FirstRun ==
    /\ tableA = <<>>
    /\ tableA' \in Tables(clusters)
    /\ UNCHANGED <<pipelineVars, flattenVars, tableB>>

SecondRun ==
    /\ tableB = <<>>
    /\ tableB' \in Tables(clusters)
    /\ UNCHANGED <<pipelineVars, flattenVars, tableA>>

NextTwoRuns == FirstRun \/ SecondRun

SpecTwoRuns == InitTwoRuns /\ [][NextTwoRuns]_vars

\* C3: two runs of the flatten-and-assemble stage on one payload build the same
\* Table: the same header, the same rows in the same order, the same cells.
C3_SameTable == (tableA # <<>> /\ tableB # <<>>) => tableA = tableB

====
